---------------------------- MODULE Spec2Model ----------------------------
(***************************************************************************)
(* A model of airflowctl (src/airflowctl/__main__.py): the three commands  *)
(* init, build and start acting on a small file system, one virtual        *)
(* environment path and the child processes they spawn.                    *)
(*                                                                         *)
(* A text file is a sequence of <<key, value>> lines; a path to a file is  *)
(* a pair <<directory, name>>; an absolute virtual-environment path is a   *)
(* tuple of path components.                                               *)
(***************************************************************************)
EXTENDS Integers, Sequences, FiniteSets, TLC

VARIABLES fs, venvs, environ, latest, pc, run, edits

vars == <<fs, venvs, environ, latest, pc, run, edits>>

-----------------------------------------------------------------------------
(* Bounds of the model                                                     *)

\* number of manual edits (project files or the venv path) the user makes
MaxUserEdits == 2

-----------------------------------------------------------------------------
(* The universe the commands act on                                        *)

Dirs == {"proj"}

SETTINGS_FILENAME == "settings.yaml"

ExampleDags == {"dags/example_dag.py"}

\* a settings file kept under another name, for build --settings-file
CUSTOM_SETTINGS_FILENAME == "custom_settings.yaml"

TopLevelNames ==
  {"dags", "plugins", "requirements.txt", ".gitignore", SETTINGS_FILENAME,
   ".env", "config.yaml", CUSTOM_SETTINGS_FILENAME}

\* the paths build is given as --settings-file
SettingsFiles ==
  {<<d, n>> : d \in Dirs, n \in {SETTINGS_FILENAME, CUSTOM_SETTINGS_FILENAME}}

EntryNames == TopLevelNames \cup ExampleDags

SixEntries ==
  {"dags", "plugins", SETTINGS_FILENAME, ".env", ".gitignore", "requirements.txt"}

NoEntry == [kind |-> "absent", text |-> <<>>]
DirEntry == [kind |-> "dir", text |-> <<>>]
File(text) == [kind |-> "file", text |-> text]

NoDir == [exists |-> FALSE, entries |-> [n \in EntryNames |-> NoEntry]]
EmptyDir == [exists |-> TRUE, entries |-> [n \in EntryNames |-> NoEntry]]

\* the versions a user passes to init explicitly, and the host's Python
ExplicitAirflowVersions == {"2.6.3"}
PythonVersions == {"3.10"}

FallbackVersion == "2.7.0"

\* what the user may write by hand into settings.yaml or config.yaml
UserYamlTexts ==
  { << <<"python_version", "3.10">>, <<"venv_path", ".venv">> >>,
    << <<"airflow_version", "2.7.0">> >>,
    << <<"airflow_version", "2.7.0">>, <<"python_version", "3.10">>,
       <<"venv_path", ".venv">> >>,
    << >> }

UserEnvTexts == { << <<"AIRFLOW__CORE__EXECUTOR", "SequentialExecutor">> >> }

UserEditable ==
  {SETTINGS_FILENAME, CUSTOM_SETTINGS_FILENAME, "config.yaml", ".env"}

VenvPaths == { <<".venv">> }

NoVenv == [kind |-> "absent", airflow |-> "none", pip_upgraded |-> FALSE]
FreshVenv == [kind |-> "venv", airflow |-> "none", pip_upgraded |-> FALSE]

EnvKeys ==
  {"AIRFLOW_HOME", "AIRFLOW__DATABASE__SQL_ALCHEMY_CONN",
   "AIRFLOW__CORE__LOAD_EXAMPLES", "AIRFLOW__CORE__EXECUTOR"}

\* the environment a process inherits from the shell: nothing set
ShellEnviron == [k \in EnvKeys |-> ""]

OsNames == {"posix", "nt", "java"}

PipOutcomes == {"ok", "upgrade_failed", "install_failed"}

\* outcomes of the GET to the package index
Responses ==
  { [request_ok |-> FALSE, json_ok |-> FALSE, is_dict |-> FALSE,
     has_info |-> FALSE, has_version |-> FALSE, version |-> ""],
    [request_ok |-> TRUE, json_ok |-> FALSE, is_dict |-> FALSE,
     has_info |-> FALSE, has_version |-> FALSE, version |-> ""],
    [request_ok |-> TRUE, json_ok |-> TRUE, is_dict |-> FALSE,
     has_info |-> FALSE, has_version |-> FALSE, version |-> ""],
    [request_ok |-> TRUE, json_ok |-> TRUE, is_dict |-> TRUE,
     has_info |-> TRUE, has_version |-> FALSE, version |-> ""],
    [request_ok |-> TRUE, json_ok |-> TRUE, is_dict |-> TRUE,
     has_info |-> TRUE, has_version |-> TRUE, version |-> "2.8.1"] }

NoResponse ==
  [request_ok |-> FALSE, json_ok |-> FALSE, is_dict |-> FALSE,
   has_info |-> FALSE, has_version |-> FALSE, version |-> ""]

-----------------------------------------------------------------------------
(* Library functions the program uses                                      *)

\* os.path.exists / Path.exists on a file of a project directory
PathExists(f, path) ==
  /\ f[path[1]].exists
  /\ f[path[1]].entries[path[2]].kind # "absent"

\* any(project_dir.iterdir())
DirNonEmpty(dir) == \E n \in TopLevelNames : dir.entries[n].kind # "absent"

\* yaml.safe_load: an empty document is None, a flat mapping is a dict in
\* which the last of several equal keys wins
LastIndex(text, k) ==
  CHOOSE i \in DOMAIN text :
    /\ text[i][1] = k
    /\ \A j \in DOMAIN text : text[j][1] = k => j <= i

yaml_safe_load(text) ==
  IF Len(text) = 0
    THEN [kind |-> "none", map |-> [k \in {} |-> ""]]
    ELSE [kind |-> "dict",
          map |-> [k \in {text[i][1] : i \in DOMAIN text} |->
                     text[LastIndex(text, k)][2]]]

\* dict.get(key, default); None stands for a missing value
ConfGet(config, key, default) ==
  IF key \in DOMAIN config.map THEN config.map[key] ELSE default

\* os.path.abspath of a path given as one string
os_path_abspath(p) == <<p>>

\* load_dotenv(env_file): sets the variables of the file that are not
\* already set in the process environment
load_dotenv(env, text) ==
  [k \in EnvKeys |->
     IF env[k] = "" /\ k \in {text[i][1] : i \in DOMAIN text}
       THEN text[LastIndex(text, k)][2]
       ELSE env[k]]

-----------------------------------------------------------------------------
(* Version Resolver                                                        *)

\* get_latest_airflow_version: the request error and the KeyError of a
\* missing field are caught; the decode error of response.json() and the
\* TypeError of indexing a non-mapping are not
get_latest_airflow_version(response) ==
  IF ~response.request_ok
    THEN [raised |-> "none", value |-> FallbackVersion]
  ELSE IF ~response.json_ok
    THEN [raised |-> "JSONDecodeError", value |-> ""]
  ELSE IF ~response.is_dict
    THEN [raised |-> "TypeError", value |-> ""]
  ELSE IF ~(response.has_info /\ response.has_version)
    THEN [raised |-> "none", value |-> FallbackVersion]
  ELSE [raised |-> "none", value |-> response.version]

-----------------------------------------------------------------------------
(* Project Scaffolder                                                      *)

GitignoreText ==
  << <<".git", "">>, <<"airflow.cfg", "">>, <<"airflow.db", "">>,
     <<"airflow-webserver.pid", "">>, <<"logs", "">>, <<".DS_Store", "">>,
     <<"__pycache__/", "">>, <<".env", "">>, <<".venv", "">>,
     <<".airflowctl", "">> >>

BundledDagText == << <<"dag_id", "example_dag">> >>

SettingsTextFixedVersion(airflow_version, python_version) ==
  << <<"airflow_version", FallbackVersion>>,
     <<"python_version", python_version>>,
     <<"connections", "{}">>, <<"variables", "{}">> >>

SettingsText(airflow_version, python_version) ==
  << <<"airflow_version", airflow_version>>,
     <<"python_version", python_version>>,
     <<"connections", "{}">>, <<"variables", "{}">> >>

EnvText(project_dir) ==
  << <<"AIRFLOW_HOME", project_dir>>,
     <<"AIRFLOW__CORE__LOAD_EXAMPLES", "False">>,
     <<"AIRFLOW__CORE__EXECUTOR", "LocalExecutor">> >>

\* mkdir(exist_ok=True)
Mkdir(entry) == IF entry.kind = "absent" THEN DirEntry ELSE entry

\* touch(exist_ok=True)
Touch(entry) == IF entry.kind = "absent" THEN File(<<>>) ELSE entry

WriteAlways(entry, text) == File(text)

\* if not path.exists(): path.write_text(text)
WriteIfAbsent(entry, text) ==
  IF entry.kind = "absent" THEN File(text) ELSE entry

\* the body of create_project after the confirmation
Scaffold(dir, project_dir, airflow_version, python_version) ==
  [exists |-> TRUE,
   entries |->
     [n \in EntryNames |->
        CASE n = "dags" -> Mkdir(dir.entries[n])
          [] n \in ExampleDags -> WriteIfAbsent(dir.entries[n], BundledDagText)
          [] n = "plugins" -> Mkdir(dir.entries[n])
          [] n = "requirements.txt" -> Touch(dir.entries[n])
          [] n = ".gitignore" -> File(GitignoreText)
          [] n = SETTINGS_FILENAME ->
               WriteIfAbsent(dir.entries[n],
                             SettingsText(airflow_version, python_version))
          [] n = ".env" -> WriteIfAbsent(dir.entries[n], EnvText(project_dir))
          [] OTHER -> dir.entries[n]]]

\* create_project: the directory after the run, whether the user was
\* prompted, and how the process ends
create_project(dir, project_name, airflow_version, python_version, confirm) ==
  LET made == IF dir.exists THEN dir ELSE EmptyDir
      prompted == DirNonEmpty(made)
  IN  IF prompted /\ ~confirm
        THEN [dir |-> made, prompted |-> TRUE, exit |-> 1, msg |-> "Aborted"]
        ELSE [dir |-> Scaffold(made, project_name, airflow_version,
                               python_version),
              prompted |-> prompted, exit |-> 0,
              msg |-> "Airflow project initialized"]

-----------------------------------------------------------------------------
(* Environment Provisioner                                                 *)

\* os.path.exists(venv_path) and os.path.exists(venv_path/bin/python)
VenvPathExists(venv) == venv.kind # "absent"
VenvHasPython(venv) == venv.kind = "venv"

verify_or_create_venv_no_check(venv, recreate) ==
  LET removed == recreate /\ VenvPathExists(venv)
      v1 == IF removed THEN NoVenv ELSE venv
  IN  IF ~VenvHasPython(v1)
        THEN [venv |-> FreshVenv, raised |-> "none", exit |-> 0,
              msg |-> "Virtual environment created",
              events |-> (IF removed THEN <<"rmtree">> ELSE <<>>)
                           \o <<"venv.create">>]
        ELSE [venv |-> v1, raised |-> "none", exit |-> 0, msg |-> "",
              events |-> IF removed THEN <<"rmtree">> ELSE <<>>]

\* verify_or_create_venv: shutil.rmtree of a path that is a plain file
\* raises NotADirectoryError; SystemExit() carries no status, which the
\* interpreter turns into exit status 0
verify_or_create_venv(venv, recreate) ==
  IF recreate /\ VenvPathExists(venv) /\ venv.kind = "file"
    THEN [venv |-> venv, raised |-> "NotADirectoryError", exit |-> 1,
          msg |-> "Traceback", events |-> <<"rmtree">>]
  ELSE
    LET removed == recreate /\ VenvPathExists(venv)
        v1 == IF removed THEN NoVenv ELSE venv
        ev1 == IF removed THEN <<"rmtree">> ELSE <<>>
    IN  IF VenvPathExists(v1) /\ ~VenvHasPython(v1)
          THEN [venv |-> v1, raised |-> "SystemExit", exit |-> 0,
                msg |-> "Virtual environment does not exist or is not valid",
                events |-> ev1]
        ELSE IF ~VenvPathExists(v1)
          THEN [venv |-> FreshVenv, raised |-> "none", exit |-> 0,
                msg |-> "Virtual environment created",
                events |-> ev1 \o <<"venv.create">>]
        ELSE [venv |-> v1, raised |-> "none", exit |-> 0, msg |-> "",
              events |-> ev1]

-----------------------------------------------------------------------------
(* Package Installer                                                       *)

\* `python -m airflow version` in the environment exits 0 exactly when an
\* Airflow is installed there
ProbeSucceeds(venv) == venv.airflow # "none"

is_airflow_installed_never(venv) ==
  [result |-> FALSE,
   events |-> IF VenvHasPython(venv) THEN <<"airflow version">> ELSE <<>>]

\* is_airflow_installed: no probe without an interpreter
is_airflow_installed(venv) ==
  IF ~VenvHasPython(venv)
    THEN [result |-> FALSE, events |-> <<>>]
    ELSE [result |-> ProbeSucceeds(venv), events |-> <<"airflow version">>]

\* the shell command `pip install --upgrade pip setuptools wheel && pip
\* install apache-airflow==version`: the second half runs only after the
\* first succeeded
RunInstallCommand(venv, version, pip) ==
  CASE pip = "ok" -> [venv EXCEPT !.airflow = version, !.pip_upgraded = TRUE]
    [] pip = "install_failed" -> [venv EXCEPT !.pip_upgraded = TRUE]
    [] OTHER -> venv

install_airflow(version, venv, pip) ==
  LET probe == is_airflow_installed(venv)
  IN  IF probe.result
        THEN [venv |-> venv, raised |-> "none", exit |-> 0,
              msg |-> "already installed", events |-> probe.events]
      ELSE IF ~VenvHasPython(venv)
        THEN [venv |-> venv, raised |-> "SystemExit", exit |-> 0,
              msg |-> "Virtual environment does not exist or is not valid",
              events |-> probe.events]
      ELSE IF pip = "ok"
        THEN [venv |-> RunInstallCommand(venv, version, pip),
              raised |-> "none", exit |-> 0, msg |-> "installed successfully",
              events |-> probe.events \o <<"pip install">>]
      ELSE [venv |-> RunInstallCommand(venv, version, pip),
            raised |-> "SystemExit", exit |-> 0,
            msg |-> "Error occurred during installation",
            events |-> probe.events \o <<"pip install">>]

-----------------------------------------------------------------------------
(* build                                                                   *)

get_conf_unchecked_airflow_version(key, settings) ==
  IF settings.kind = "none"
    THEN [raised |-> "TypeError", exit |-> 1, msg |-> "Traceback",
          value |-> ""]
  ELSE IF key \notin DOMAIN settings.map /\ key # "airflow_version"
    THEN [raised |-> "Exit", exit |-> 1,
          msg |-> "Key not found in settings file", value |-> ""]
  ELSE [raised |-> "none", exit |-> 0, msg |-> "",
        value |-> ConfGet(settings, key, "None")]

get_conf_unchecked_python_version(key, settings) ==
  IF settings.kind = "none"
    THEN [raised |-> "TypeError", exit |-> 1, msg |-> "Traceback",
          value |-> ""]
  ELSE IF key \notin DOMAIN settings.map /\ key # "python_version"
    THEN [raised |-> "Exit", exit |-> 1,
          msg |-> "Key not found in settings file", value |-> ""]
  ELSE [raised |-> "none", exit |-> 0, msg |-> "",
        value |-> ConfGet(settings, key, "None")]

\* _get_conf_or_raise: `key not in settings` is a TypeError when the
\* document is empty (None)
_get_conf_or_raise(key, settings) ==
  IF settings.kind = "none"
    THEN [raised |-> "TypeError", exit |-> 1, msg |-> "Traceback",
          value |-> ""]
  ELSE IF key \notin DOMAIN settings.map
    THEN [raised |-> "Exit", exit |-> 1,
          msg |-> "Key not found in settings file", value |-> ""]
  ELSE [raised |-> "none", exit |-> 0, msg |-> "",
        value |-> settings.map[key]]

\* the outcome of a command that stops before it touches anything
Stopped(venv, r, detail, events) ==
  [venv |-> venv, raised |-> r.raised, exit |-> r.exit, msg |-> r.msg,
   detail |-> detail, events |-> events]

\* build: the existence check looks at project_path/settings.yaml, the
\* file opened is settings_file
build(f, venv, project_path, settings_file, recreate_venv, pip) ==
  IF ~PathExists(f, <<project_path, SETTINGS_FILENAME>>)
    THEN [venv |-> venv, raised |-> "Exit", exit |-> 1,
          msg |-> "Settings file not found", detail |-> "", events |-> <<>>]
  ELSE IF ~PathExists(f, settings_file)
    THEN [venv |-> venv, raised |-> "FileNotFoundError", exit |-> 1,
          msg |-> "Traceback", detail |-> "", events |-> <<>>]
  ELSE
    LET config ==
          yaml_safe_load(f[settings_file[1]].entries[settings_file[2]].text)
        airflow_version == _get_conf_or_raise("airflow_version", config)
        python_version == _get_conf_or_raise("python_version", config)
    IN  IF airflow_version.raised # "none"
          THEN Stopped(venv, airflow_version, "airflow_version", <<>>)
        ELSE IF python_version.raised # "none"
          THEN Stopped(venv, python_version, "python_version", <<>>)
        ELSE
          LET made == verify_or_create_venv(venv, recreate_venv)
              inst == install_airflow(airflow_version.value, made.venv, pip)
          IN  IF made.raised # "none"
                THEN [venv |-> made.venv, raised |-> made.raised,
                      exit |-> made.exit, msg |-> made.msg,
                      detail |-> "verify_or_create_venv",
                      events |-> made.events]
              ELSE IF inst.raised # "none"
                THEN [venv |-> inst.venv, raised |-> inst.raised,
                      exit |-> inst.exit, msg |-> inst.msg,
                      detail |-> "install_airflow",
                      events |-> made.events \o inst.events]
              ELSE [venv |-> inst.venv, raised |-> "none", exit |-> 0,
                    msg |-> "Airflow project built successfully",
                    detail |-> inst.msg,
                    events |-> made.events \o inst.events]

-----------------------------------------------------------------------------
(* start                                                                   *)

\* activate_virtualenv: which shell word the host supports
activate_virtualenv(venv_path, os_name) ==
  CASE os_name = "posix" -> [raised |-> "none", cmd |-> "source"]
    [] os_name = "nt" -> [raised |-> "none", cmd |-> "call"]
    [] OTHER -> [raised |-> "Exit", cmd |-> ""]

\* "sqlite:///" + os.path.abspath(os.path.join(project_path, "airflow.db"))
SqliteConn(project_path) ==
  CASE project_path = "proj" -> "sqlite:///proj/airflow.db"
    [] OTHER -> "sqlite:///airflow.db"

\* the environment start hands to the child: .env loaded, then the two
\* variables set from the project path
StartEnviron(env, env_text, project_path) ==
  [load_dotenv(env, env_text) EXCEPT
     !["AIRFLOW_HOME"] = project_path,
     !["AIRFLOW__DATABASE__SQL_ALCHEMY_CONN"] = SqliteConn(project_path)]

\* the venv path start resolves from the config
ResolveVenvPath(config, project_path) ==
  IF "venv_path" \in DOMAIN config.map
    THEN os_path_abspath(config.map["venv_path"])
    ELSE <<project_path, ".venv", "airflow",
           ConfGet(config, "airflow_version", "None"), "py",
           ConfGet(config, "python_version", "None")>>

\* `<activate> && airflow standalone` exits 0 only if the activation script
\* is there, Airflow is installed and the server itself ends with 0
ChildSucceeds(vs, venv_path, server_ok) ==
  /\ venv_path \in DOMAIN vs
  /\ vs[venv_path].kind = "venv"
  /\ vs[venv_path].airflow # "none"
  /\ server_ok

start_checks_config_only(f, project_path) ==
  IF ~PathExists(f, <<project_path, "config.yaml">>)
    THEN "Config file not found"
    ELSE "ok"

\* the two existence checks at the head of start
start_checks(f, project_path) ==
  IF ~PathExists(f, <<project_path, "config.yaml">>)
    THEN "Config file not found"
  ELSE IF ~PathExists(f, <<project_path, ".env">>)
    THEN ".env file not found"
  ELSE "ok"

start(f, vs, env, project_path, os_name, server_ok) ==
  LET checked == start_checks(f, project_path)
  IN  IF checked # "ok"
        THEN [environ |-> env, raised |-> "Exit", exit |-> 1,
              msg |-> checked, events |-> <<>>]
      ELSE
        LET config == yaml_safe_load(f[project_path].entries["config.yaml"].text)
            env2 == StartEnviron(env, f[project_path].entries[".env"].text,
                                 project_path)
        IN  IF config.kind = "none"
              THEN [environ |-> env2, raised |-> "AttributeError",
                    exit |-> 1, msg |-> "Traceback", events |-> <<>>]
            ELSE
              LET venv_path == ResolveVenvPath(config, project_path)
                  activate_cmd == activate_virtualenv(venv_path, os_name)
              IN  IF activate_cmd.raised # "none"
                    THEN [environ |-> env2, raised |-> "Exit", exit |-> 1,
                          msg |-> "Unsupported operating system",
                          events |-> <<>>]
                  ELSE IF ChildSucceeds(vs, venv_path, server_ok)
                    THEN [environ |-> env2, raised |-> "none", exit |-> 0,
                          msg |-> "", events |-> <<"airflow standalone">>]
                  ELSE [environ |-> env2, raised |-> "Exit", exit |-> 1,
                        msg |-> "Error starting Airflow",
                        events |-> <<"airflow standalone">>]

-----------------------------------------------------------------------------
(* The state machine: one process at a time, and the user's manual edits   *)

NoLookup ==
  [called |-> FALSE, response |-> NoResponse,
   result |-> [raised |-> "none", value |-> ""]]

NoRun ==
  [cmd |-> "", project |-> "", settings_file |-> <<"", "">>,
   venv_path |-> <<>>,
   airflow_version |-> "", python_version |-> "", recreate |-> FALSE,
   prompted |-> FALSE, raised |-> "none", exit |-> 0, msg |-> "",
   detail |-> "", events |-> <<>>]

Init ==
  /\ fs = [d \in Dirs |-> NoDir]
  /\ venvs = [p \in VenvPaths |-> NoVenv]
  /\ environ = ShellEnviron
  /\ latest = NoLookup
  /\ pc = "idle"
  /\ run = NoRun
  /\ edits = 0

\* The interpreter loads the module: the default of init's
\* --airflow-version option is evaluated while init is being defined, so
\* every command performs the lookup before it is dispatched.
Launch(response) ==
  /\ pc \in {"idle", "exited"}
  /\ LET r == get_latest_airflow_version(response)
     IN  /\ latest' = [called |-> TRUE, response |-> response, result |-> r]
         /\ IF r.raised = "none"
              THEN /\ pc' = "loaded"
                   /\ run' = NoRun
              ELSE /\ pc' = "exited"
                   /\ run' = [NoRun EXCEPT !.cmd = "import",
                                           !.raised = r.raised, !.exit = 1,
                                           !.msg = "Traceback"]
  /\ environ' = ShellEnviron
  /\ UNCHANGED <<fs, venvs, edits>>

init(project_name, airflow_version, python_version, confirm) ==
  /\ pc = "loaded"
  /\ LET r == create_project(fs[project_name], project_name, airflow_version,
                             python_version, confirm)
     IN  /\ fs' = [fs EXCEPT ![project_name] = r.dir]
         /\ run' = [NoRun EXCEPT !.cmd = "init", !.project = project_name,
                                 !.airflow_version = airflow_version,
                                 !.python_version = python_version,
                                 !.prompted = r.prompted,
                                 !.raised = IF r.exit = 0 THEN "none"
                                                          ELSE "Abort",
                                 !.exit = r.exit, !.msg = r.msg]
  /\ pc' = "exited"
  /\ UNCHANGED <<venvs, environ, latest, edits>>

RunBuild(project_path, settings_file, venv_path, recreate_venv, pip) ==
  /\ pc = "loaded"
  /\ LET r == build(fs, venvs[venv_path], project_path, settings_file,
                    recreate_venv, pip)
     IN  /\ venvs' = [venvs EXCEPT ![venv_path] = r.venv]
         /\ run' = [NoRun EXCEPT !.cmd = "build", !.project = project_path,
                                 !.settings_file = settings_file,
                                 !.venv_path = venv_path,
                                 !.recreate = recreate_venv,
                                 !.raised = r.raised, !.exit = r.exit,
                                 !.msg = r.msg, !.detail = r.detail,
                                 !.events = r.events]
  /\ pc' = "exited"
  /\ UNCHANGED <<fs, environ, latest, edits>>

RunStart(project_path, os_name, server_ok) ==
  /\ pc = "loaded"
  /\ LET r == start(fs, venvs, environ, project_path, os_name, server_ok)
     IN  /\ environ' = r.environ
         /\ run' = [NoRun EXCEPT !.cmd = "start", !.project = project_path,
                                 !.raised = r.raised, !.exit = r.exit,
                                 !.msg = r.msg, !.events = r.events]
  /\ pc' = "exited"
  /\ UNCHANGED <<fs, venvs, latest, edits>>

\* the user writes or removes one of the files they maintain by hand
UserWrite(d, name, text) ==
  /\ edits < MaxUserEdits
  /\ fs' = [fs EXCEPT ![d] = [exists |-> TRUE,
                              entries |-> [fs[d].entries EXCEPT
                                             ![name] = File(text)]]]
  /\ edits' = edits + 1
  /\ UNCHANGED <<venvs, environ, latest, pc, run>>

UserRemove(d, name) ==
  /\ edits < MaxUserEdits
  /\ fs[d].entries[name].kind # "absent"
  /\ fs' = [fs EXCEPT ![d].entries[name] = NoEntry]
  /\ edits' = edits + 1
  /\ UNCHANGED <<venvs, environ, latest, pc, run>>

\* the user removes the venv path, or puts a plain file or a directory
\* without an interpreter there
UserSetVenv(venv_path, kind) ==
  /\ edits < MaxUserEdits
  /\ venvs[venv_path].kind # kind
  /\ venvs' = [venvs EXCEPT ![venv_path] = [NoVenv EXCEPT !.kind = kind]]
  /\ edits' = edits + 1
  /\ UNCHANGED <<fs, environ, latest, pc, run>>

Next ==
  \/ \E response \in Responses : Launch(response)
  \/ \E d \in Dirs, pv \in PythonVersions, confirm \in BOOLEAN,
        av \in ExplicitAirflowVersions \cup {latest.result.value} :
       init(d, av, pv, confirm)
  \/ \E d \in Dirs, sf \in SettingsFiles, p \in VenvPaths,
        recreate \in BOOLEAN, pip \in PipOutcomes :
       RunBuild(d, sf, p, recreate, pip)
  \/ \E d \in Dirs, os_name \in OsNames, server_ok \in BOOLEAN :
       RunStart(d, os_name, server_ok)
  \/ \E d \in Dirs, text \in UserYamlTexts,
        name \in {SETTINGS_FILENAME, CUSTOM_SETTINGS_FILENAME, "config.yaml"} :
       UserWrite(d, name, text)
  \/ \E d \in Dirs, text \in UserEnvTexts : UserWrite(d, ".env", text)
  \/ \E d \in Dirs, name \in UserEditable : UserRemove(d, name)
  \/ \E p \in VenvPaths, kind \in {"absent", "file", "dir"} :
       UserSetVenv(p, kind)

Spec == Init /\ [][Next]_vars

-----------------------------------------------------------------------------
(* Properties                                                              *)

InitStep == pc = "loaded" /\ pc' = "exited" /\ run'.cmd = "init"
BuildStep == pc = "loaded" /\ pc' = "exited" /\ run'.cmd = "build"
StartStep == pc = "loaded" /\ pc' = "exited" /\ run'.cmd = "start"

Occurs(e, events) == \E i \in DOMAIN events : events[i] = e

TextOf(f, path) == f[path[1]].entries[path[2]].text

\* the document a command parses from a file that exists
DocOf(f, path) == yaml_safe_load(TextOf(f, path))

Lacks(f, path, key) == key \notin DOMAIN DocOf(f, path).map

\* build gets as far as opening and parsing its settings file
BuildReads(f, r) ==
  /\ PathExists(f, <<r.project, SETTINGS_FILENAME>>)
  /\ PathExists(f, r.settings_file)

\* build gets as far as verify_or_create_venv
BuildProvisions(f, r) ==
  /\ BuildReads(f, r)
  /\ DocOf(f, r.settings_file).kind = "dict"
  /\ ~Lacks(f, r.settings_file, "airflow_version")
  /\ ~Lacks(f, r.settings_file, "python_version")

\* C1: a build that reads a settings file without the key airflow_version
\* ends with a non-zero exit status, and the virtual environment is neither
\* created nor deleted nor otherwise touched, whatever --recreate-venv says.
C1_MissingAirflowVersionStopsBuild ==
  [][(BuildStep /\ BuildReads(fs, run')
        /\ Lacks(fs, run'.settings_file, "airflow_version"))
       => (/\ run'.exit # 0
           /\ run'.events = <<>>
           /\ venvs' = venvs)]_vars

C1_Witness ==
  /\ pc = "exited"
  /\ run.cmd = "build"
  /\ run.msg = "Key not found in settings file"
  /\ run.detail = "airflow_version"
  /\ run.recreate
  /\ run.exit = 1
  /\ venvs[run.venv_path].kind = "venv"

\* C2: a start on a project path where config.yaml or .env is missing exits
\* with status 1, spawns no child process and leaves the process
\* environment as it was.
C2_StartNeedsConfigAndEnv ==
  [][(StartStep
        /\ (\/ ~PathExists(fs, <<run'.project, "config.yaml">>)
            \/ ~PathExists(fs, <<run'.project, ".env">>)))
       => (/\ run'.exit = 1
           /\ run'.events = <<>>
           /\ environ' = environ)]_vars

C2_Witness ==
  /\ pc = "exited"
  /\ run.cmd = "start"
  /\ run.msg = ".env file not found"
  /\ run.exit = 1
  /\ PathExists(fs, <<run.project, "config.yaml">>)
  /\ ~PathExists(fs, <<run.project, ".env">>)
  /\ environ = ShellEnviron

\* C3: a build without --recreate-venv on an environment in which Airflow
\* is installed runs no pip command and leaves the environment unchanged;
\* and whenever the install command runs, the `airflow version` probe ran
\* before it on an environment without Airflow.
C3_BuildIdempotent ==
  [][BuildStep =>
       LET p == run'.venv_path
       IN  /\ (/\ ~run'.recreate
               /\ venvs[p].kind = "venv"
               /\ venvs[p].airflow # "none")
                => (/\ ~Occurs("pip install", run'.events)
                    /\ venvs' = venvs)
           /\ Occurs("pip install", run'.events)
                => (/\ Occurs("airflow version", run'.events)
                    /\ (run'.recreate \/ venvs[p].airflow = "none"))]_vars

C3_Witness ==
  /\ pc = "exited"
  /\ run.cmd = "build"
  /\ ~run.recreate
  /\ run.exit = 0
  /\ run.detail = "already installed"
  /\ run.events = <<"airflow version">>
  /\ PathExists(fs, run.settings_file)
  /\ ~Lacks(fs, run.settings_file, "airflow_version")
  /\ venvs[run.venv_path].airflow
       = DocOf(fs, run.settings_file).map["airflow_version"]

\* C4: every command that stops on a failure ends with a non-zero exit
\* status.
C4_FailuresExitNonZero ==
  pc = "exited" /\ run.raised # "none" => run.exit # 0

\* C5: build reports the settings file missing exactly when the file named
\* by --settings-file does not exist, and never tries to open a file that
\* is not there.
C5_SettingsFileCheckedIsFileRead ==
  [][BuildStep =>
       /\ (run'.msg = "Settings file not found")
            <=> ~PathExists(fs, run'.settings_file)
       /\ run'.raised # "FileNotFoundError"]_vars

\* a build stopped before provisioning: failed, nothing spawned or touched
BuildAborted == run'.exit # 0 /\ run'.events = <<>> /\ venvs' = venvs

C7_InitKeepsSettingsAndEnv ==
  [][InitStep =>
       \A n \in {SETTINGS_FILENAME, ".env"} :
         LET d == run'.project
         IN  fs[d].entries[n].kind # "absent"
               => fs'[d].entries[n] = fs[d].entries[n]]_vars

C7_Witness ==
  /\ pc = "exited"
  /\ run.cmd = "init"
  /\ run.prompted
  /\ run.exit = 0
  /\ fs[run.project].entries[SETTINGS_FILENAME].text \in UserYamlTexts
  /\ fs[run.project].entries[".env"].text \in UserEnvTexts
  /\ fs[run.project].entries[".gitignore"].kind = "file"

\* C8: an init on a directory that is empty or does not exist yet does not
\* prompt, succeeds, and leaves dags/, plugins/, settings.yaml, .env,
\* .gitignore and requirements.txt there, settings.yaml holding the given
\* airflow_version and python_version.
C8_InitOnEmptyDirCreatesProject ==
  [][(InitStep /\ ~DirNonEmpty(fs[run'.project])) =>
       LET d == run'.project
           doc == DocOf(fs', <<d, SETTINGS_FILENAME>>)
       IN  /\ ~run'.prompted
           /\ run'.exit = 0
           /\ fs'[d].exists
           /\ \A n \in {"dags", "plugins"} : fs'[d].entries[n].kind = "dir"
           /\ \A n \in SixEntries \ {"dags", "plugins"} :
                fs'[d].entries[n].kind = "file"
           /\ doc.kind = "dict"
           /\ ConfGet(doc, "airflow_version", "None") = run'.airflow_version
           /\ ConfGet(doc, "python_version", "None") = run'.python_version]_vars

C8_Witness ==
  /\ pc = "exited"
  /\ run.cmd = "init"
  /\ ~run.prompted
  /\ run.exit = 0
  /\ run.airflow_version \in ExplicitAirflowVersions
  /\ \A n \in SixEntries : fs[run.project].entries[n].kind # "absent"
  /\ ConfGet(DocOf(fs, <<run.project, SETTINGS_FILENAME>>),
             "airflow_version", "None") = run.airflow_version

\* C9: the version lookup never raises and returns a non-empty string: the
\* version the index reports when the response carries info.version, the
\* fallback 2.7.0 for every other outcome.
C9_LookupAlwaysReturnsVersion ==
  latest.called =>
    LET resp == latest.response
        reported == /\ resp.request_ok /\ resp.json_ok /\ resp.is_dict
                    /\ resp.has_info /\ resp.has_version
    IN  /\ latest.result.raised = "none"
        /\ latest.result.value # ""
        /\ reported => latest.result.value = resp.version
        /\ ~reported => latest.result.value = "2.7.0"

\* C10: once build reaches verify_or_create_venv, the process stops there
\* exactly when, after the deletion --recreate-venv asks for, the path
\* still exists without an interpreter; otherwise an environment is at the
\* path, newly created exactly when the path was absent or a recreation
\* was requested, and left alone when it was valid and none was requested.
C10_VerifyOrCreateVenv ==
  [][(BuildStep /\ BuildProvisions(fs, run')) =>
       LET v == venvs[run'.venv_path]
           w == venvs'[run'.venv_path]
           recreate == run'.recreate
           stopped == run'.detail = "verify_or_create_venv"
           created == Occurs("venv.create", run'.events)
           left == \/ v.kind = "file"
                   \/ v.kind = "dir" /\ ~recreate
       IN  /\ stopped <=> left
           /\ stopped => (w.kind # "absent" /\ w.kind # "venv")
           /\ ~stopped =>
                /\ w.kind = "venv"
                /\ created <=> (v.kind = "absent" \/ recreate)
                /\ (v.kind = "venv" /\ ~recreate)
                     => (/\ ~Occurs("rmtree", run'.events)
                         /\ ~Occurs("pip install", run'.events) => w = v)]_vars

C10_Witness ==
  /\ pc = "exited"
  /\ run.cmd = "build"
  /\ run.recreate
  /\ Occurs("rmtree", run.events)
  /\ Occurs("venv.create", run.events)
  /\ venvs[run.venv_path].kind = "venv"

=============================================================================
